---- MODULE Spec2Model ----
(***************************************************************************)
(* Model of src/components.py (ShackHeat): the thermal envelope tree       *)
(* Material / MaterialCollection / Opening / Roof / Floor / Wall / Side /  *)
(* Building, its add / remove operations and its flux computations.        *)
(*                                                                         *)
(* Python numbers are modelled as exact rationals n/d (floating-point      *)
(* rounding is abstracted away); None, numbers and tuples are told apart   *)
(* by a kind tag so that the TypeError / AttributeError / ValueError /     *)
(* ZeroDivisionError paths of the interpreter are part of the model.       *)
(***************************************************************************)
EXTENDS Integers, Sequences, FiniteSets, TLC

\* ------------------------------------------------------------------ bounds
\* longest materials / openings list the driver builds
MaxLen == 2
\* largest width, length, height and Opening surface the driver passes
MaxDim == 2
\* largest thermal conductivity the driver passes
MaxCond == 1

\* --------------------------------------------------------- program constants
\* default arguments of Building.calculate_flux
DefaultInside == 20
DefaultOutside == 10
DefaultUnderground == 15

\* ---------------------------------------------------------------- objects
None == "None"

Materials == {"m1", "m2"}
Collections == {"c1", "c2"}
Openings == {"o1", "o2"}
Roofs == {"r1", "r2"}
Floors == {"f1", "f2"}
Walls == {"w1", "w2"}
Sides == {"s1", "s2"}
Buildings == {"b1", "b2"}

\* every instance of MaterialCollection or of one of its subclasses
AllCollections == Collections \cup Openings \cup Roofs \cup Floors \cup Walls
\* every object that has a parent attribute
Children == Materials \cup AllCollections \cup Sides

\* ----------------------------------------------------------- Python values
PyNone == [k |-> "None", n |-> 0, d |-> 1]

RECURSIVE Gcd(_, _)
Gcd(a, b) == IF b = 0 THEN a ELSE Gcd(b, a % b)

Abs(x) == IF x < 0 THEN -x ELSE x

\* the number n/d in lowest terms with a positive denominator (d # 0)
Num(n, d) ==
    LET g == Gcd(Abs(n), Abs(d))
        s == IF d < 0 THEN -1 ELSE 1
    IN  [k |-> "num", n |-> s * (n \div g), d |-> s * (d \div g)]

PyInt(i) == [k |-> "num", n |-> i, d |-> 1]

\* the tuple a *args parameter is bound to; n is its length
PyTuple(items) == [k |-> "tuple", n |-> Len(items), d |-> 1]

\* outcome of evaluating an expression: a value, or the exception raised
Ok(v) == [err |-> "none", val |-> v]
Raise(e) == [err |-> e, val |-> PyNone]

IsNum(v) == v.k = "num"

\* a + b, a - b, a * b, a / b on the operand kinds that reach them here
PyAdd(a, b) ==
    IF IsNum(a) /\ IsNum(b) THEN Ok(Num(a.n * b.d + b.n * a.d, a.d * b.d))
    ELSE Raise("TypeError")

PySub(a, b) ==
    IF IsNum(a) /\ IsNum(b) THEN Ok(Num(a.n * b.d - b.n * a.d, a.d * b.d))
    ELSE Raise("TypeError")

PyMul(a, b) ==
    IF IsNum(a) /\ IsNum(b) THEN Ok(Num(a.n * b.n, a.d * b.d))
    ELSE Raise("TypeError")

PyDiv(a, b) ==
    IF ~(IsNum(a) /\ IsNum(b)) THEN Raise("TypeError")
    ELSE IF b.n = 0 THEN Raise("ZeroDivisionError")
    ELSE Ok(Num(a.n * b.d, a.d * b.n))

\* a binary operator applied to two outcomes, left operand first: the first
\* exception wins
Lift2(op, x, y) ==
    IF x.err # "none" THEN x
    ELSE IF y.err # "none" THEN y
    ELSE CASE op = "+" -> PyAdd(x.val, y.val)
           [] op = "-" -> PySub(x.val, y.val)
           [] op = "*" -> PyMul(x.val, y.val)
           [] op = "/" -> PyDiv(x.val, y.val)

\* ------------------------------------------------------------------ state
VARIABLES
    parent,                 \* Children -> owner, or None
    materials,              \* AllCollections -> sequence of Materials
    surface,                \* AllCollections -> value
    thermal_conductivity,   \* Materials -> value
    thickness,              \* Materials -> value
    height,                 \* Sides -> value
    wall,                   \* Sides -> Wall or None
    openings,               \* Sides -> sequence of Openings
    width,                  \* Buildings -> value
    length,                 \* Buildings -> value
    roof,                   \* Buildings -> Roof or None
    side,                   \* Buildings -> Side or None
    floor,                  \* Buildings -> Floor or None
    ret                     \* the last call: what was called and its outcome

vars == <<parent, materials, surface, thermal_conductivity, thickness, height,
          wall, openings, width, length, roof, side, floor, ret>>

links == <<parent, materials, wall, openings, roof, side, floor>>
fields == <<surface, thermal_conductivity, thickness, height, width, length>>

Call(op, self, child, args, r) ==
    [op |-> op, self |-> self, child |-> child, args |-> args,
     err |-> r.err, val |-> r.val]

\* ------------------------------------------------------------ construction
\* every object built by its constructor with no argument
InitBare ==
    /\ parent = [c \in Children |-> None]
    /\ materials = [c \in AllCollections |-> <<>>]
    /\ surface = [c \in AllCollections |-> PyNone]
    /\ thermal_conductivity = [m \in Materials |-> PyNone]
    /\ thickness = [m \in Materials |-> PyNone]
    /\ height = [s \in Sides |-> PyNone]
    /\ wall = [s \in Sides |-> None]
    /\ openings = [s \in Sides |-> <<>>]
    /\ width = [b \in Buildings |-> PyNone]
    /\ length = [b \in Buildings |-> PyNone]
    /\ roof = [b \in Buildings |-> None]
    /\ side = [b \in Buildings |-> None]
    /\ floor = [b \in Buildings |-> None]
    /\ ret = Call("init", None, None, <<>>, Ok(PyNone))

\* ------------------------------------------------------------- list helpers
Range(s) == {s[i] : i \in 1..Len(s)}

\* list.remove(x): the list without the first occurrence of x
ListRemove(s, x) ==
    LET i == CHOOSE j \in 1..Len(s) : s[j] = x /\ \A h \in 1..(j - 1) : s[h] # x
    IN  SubSeq(s, 1, i - 1) \o SubSeq(s, i + 1, Len(s))

\* ------------------------------------------------------- MaterialCollection
\* MaterialCollection.add(child), inherited unchanged by every subclass
MaterialCollection_add(c, child) ==
    /\ materials' = [materials EXCEPT ![c] = Append(@, child)]
    /\ parent' = [parent EXCEPT ![child] = c]
    /\ ret' = Call("MaterialCollection.add", c, child, <<>>, Ok(PyNone))
    /\ UNCHANGED <<wall, openings, roof, side, floor>>
    /\ UNCHANGED fields

\* MaterialCollection.remove with the back-reference cleared before the list is
\* searched
MaterialCollection_remove_ClearsParentFirst(c, child) ==
    /\ parent' = [parent EXCEPT ![child] = None]
    /\ IF child \in Range(materials[c])
       THEN /\ materials' = [materials EXCEPT ![c] = ListRemove(@, child)]
            /\ ret' = Call("MaterialCollection.remove", c, child, <<>>, Ok(PyNone))
       ELSE /\ UNCHANGED materials
            /\ ret' = Call("MaterialCollection.remove", c, child, <<>>,
                           Raise("ValueError"))
    /\ UNCHANGED <<wall, openings, roof, side, floor>>
    /\ UNCHANGED fields

\* MaterialCollection.remove(child): list.remove raises ValueError before the
\* back-reference is touched
MaterialCollection_remove(c, child) ==
    /\ IF child \in Range(materials[c])
       THEN /\ materials' = [materials EXCEPT ![c] = ListRemove(@, child)]
            /\ parent' = [parent EXCEPT ![child] = None]
            /\ ret' = Call("MaterialCollection.remove", c, child, <<>>, Ok(PyNone))
       ELSE /\ UNCHANGED <<materials, parent>>
            /\ ret' = Call("MaterialCollection.remove", c, child, <<>>,
                           Raise("ValueError"))
    /\ UNCHANGED <<wall, openings, roof, side, floor>>
    /\ UNCHANGED fields

\* --------------------------------------------------------------------- Side
\* Side.add that detaches the Wall it displaces
Side_add_DetachesPrevious(s, child) ==
    /\ IF child \in Walls
       THEN /\ wall' = [wall EXCEPT ![s] = child]
            /\ parent' = [c \in Children |->
                   IF c = child THEN s
                   ELSE IF c = wall[s] THEN None ELSE parent[c]]
            /\ UNCHANGED openings
       ELSE IF child \in Openings
       THEN /\ openings' = [openings EXCEPT ![s] = Append(@, child)]
            /\ parent' = [parent EXCEPT ![child] = s]
            /\ UNCHANGED wall
       ELSE UNCHANGED <<wall, openings, parent>>
    /\ ret' = Call("Side.add", s, child, <<>>, Ok(PyNone))
    /\ UNCHANGED <<materials, roof, side, floor>>
    /\ UNCHANGED fields

\* Side.add(child): isinstance dispatch, any other type falls through
Side_add(s, child) ==
    /\ IF child \in Walls
       THEN /\ wall' = [wall EXCEPT ![s] = child]
            /\ parent' = [parent EXCEPT ![child] = s]
            /\ UNCHANGED openings
       ELSE IF child \in Openings
       THEN /\ openings' = [openings EXCEPT ![s] = Append(@, child)]
            /\ parent' = [parent EXCEPT ![child] = s]
            /\ UNCHANGED wall
       ELSE UNCHANGED <<wall, openings, parent>>
    /\ ret' = Call("Side.add", s, child, <<>>, Ok(PyNone))
    /\ UNCHANGED <<materials, roof, side, floor>>
    /\ UNCHANGED fields

\* Side.remove(child): the Wall branch never looks at the slot's occupant
Side_remove(s, child) ==
    /\ IF child \in Walls
       THEN /\ wall' = [wall EXCEPT ![s] = None]
            /\ parent' = [parent EXCEPT ![child] = None]
            /\ UNCHANGED openings
            /\ ret' = Call("Side.remove", s, child, <<>>, Ok(PyNone))
       ELSE IF child \in Openings
       THEN IF child \in Range(openings[s])
            THEN /\ openings' = [openings EXCEPT ![s] = ListRemove(@, child)]
                 /\ parent' = [parent EXCEPT ![child] = None]
                 /\ UNCHANGED wall
                 /\ ret' = Call("Side.remove", s, child, <<>>, Ok(PyNone))
            ELSE /\ UNCHANGED <<wall, openings, parent>>
                 /\ ret' = Call("Side.remove", s, child, <<>>, Raise("ValueError"))
       ELSE /\ UNCHANGED <<wall, openings, parent>>
            /\ ret' = Call("Side.remove", s, child, <<>>, Ok(PyNone))
    /\ UNCHANGED <<materials, roof, side, floor>>
    /\ UNCHANGED fields

\* ----------------------------------------------------------------- Building
\* Building.add whose last branch takes every remaining child for a Floor
Building_add_ElseIsFloor(b, child) ==
    /\ IF child \in Roofs
       THEN /\ roof' = [roof EXCEPT ![b] = child]
            /\ UNCHANGED <<side, floor>>
       ELSE IF child \in Sides
       THEN /\ side' = [side EXCEPT ![b] = child]
            /\ UNCHANGED <<roof, floor>>
       ELSE /\ floor' = [floor EXCEPT ![b] = child]
            /\ UNCHANGED <<roof, side>>
    /\ parent' = [parent EXCEPT ![child] = b]
    /\ ret' = Call("Building.add", b, child, <<>>, Ok(PyNone))
    /\ UNCHANGED <<materials, wall, openings>>
    /\ UNCHANGED fields

\* Building.add(child)
Building_add(b, child) ==
    /\ IF child \in Roofs
       THEN /\ roof' = [roof EXCEPT ![b] = child]
            /\ parent' = [parent EXCEPT ![child] = b]
            /\ UNCHANGED <<side, floor>>
       ELSE IF child \in Sides
       THEN /\ side' = [side EXCEPT ![b] = child]
            /\ parent' = [parent EXCEPT ![child] = b]
            /\ UNCHANGED <<roof, floor>>
       ELSE IF child \in Floors
       THEN /\ floor' = [floor EXCEPT ![b] = child]
            /\ parent' = [parent EXCEPT ![child] = b]
            /\ UNCHANGED <<roof, side>>
       ELSE UNCHANGED <<roof, side, floor, parent>>
    /\ ret' = Call("Building.add", b, child, <<>>, Ok(PyNone))
    /\ UNCHANGED <<materials, wall, openings>>
    /\ UNCHANGED fields

\* Building.remove(child)
Building_remove(b, child) ==
    /\ IF child \in Roofs
       THEN /\ roof' = [roof EXCEPT ![b] = None]
            /\ parent' = [parent EXCEPT ![child] = None]
            /\ UNCHANGED <<side, floor>>
       ELSE IF child \in Sides
       THEN /\ side' = [side EXCEPT ![b] = None]
            /\ parent' = [parent EXCEPT ![child] = None]
            /\ UNCHANGED <<roof, floor>>
       ELSE IF child \in Floors
       THEN /\ floor' = [floor EXCEPT ![b] = None]
            /\ parent' = [parent EXCEPT ![child] = None]
            /\ UNCHANGED <<roof, side>>
       ELSE UNCHANGED <<roof, side, floor, parent>>
    /\ ret' = Call("Building.remove", b, child, <<>>, Ok(PyNone))
    /\ UNCHANGED <<materials, wall, openings>>
    /\ UNCHANGED fields

\* ------------------------------------------------------------ flux formulas
\* the quotient taken the wrong way round
Material_calculate_thermal_conductivity_insulance_Inverted(m) ==
    PyDiv(thermal_conductivity[m], thickness[m])

\* Material.calculate_thermal_conductivity_insulance
Material_calculate_thermal_conductivity_insulance(m) ==
    PyDiv(thickness[m], thermal_conductivity[m])

\* the loop of MaterialCollection.calculate_thermal_conductivity_insulance from
\* position i on, acc being the running sum
RECURSIVE SumInsulance(_, _, _)
SumInsulance(ms, i, acc) ==
    IF acc.err # "none" \/ i > Len(ms) THEN acc
    ELSE SumInsulance(ms, i + 1,
             Lift2("+", acc, Material_calculate_thermal_conductivity_insulance(ms[i])))

MaterialCollection_calculate_thermal_conductivity_insulance(c) ==
    SumInsulance(materials[c], 1, Ok(PyInt(0)))

\* calculate_thermal_insulance: Floor overrides it and leaves the outside
\* convection term out
MaterialCollection_calculate_thermal_insulance(c) ==
    LET conduction == MaterialCollection_calculate_thermal_conductivity_insulance(c)
        inside == PyDiv(PyInt(1), PyInt(10))
        outside == PyDiv(PyInt(1), PyInt(80))
    IN  IF conduction.err # "none" THEN conduction
        ELSE Lift2("+", Lift2("+", conduction, inside), outside)

\* the Floor override with the outside convection term left in
Floor_calculate_thermal_insulance_WithOutside(c) ==
    LET conduction == MaterialCollection_calculate_thermal_conductivity_insulance(c)
        inside == PyDiv(PyInt(1), PyInt(10))
        outside == PyDiv(PyInt(1), PyInt(80))
    IN  IF conduction.err # "none" THEN conduction
        ELSE Lift2("+", Lift2("+", conduction, inside), outside)

Floor_calculate_thermal_insulance(c) ==
    LET conduction == MaterialCollection_calculate_thermal_conductivity_insulance(c)
        inside == PyDiv(PyInt(1), PyInt(10))
    IN  IF conduction.err # "none" THEN conduction
        ELSE Lift2("+", conduction, inside)

calculate_thermal_insulance(c) ==
    IF c \in Floors THEN Floor_calculate_thermal_insulance(c)
    ELSE MaterialCollection_calculate_thermal_insulance(c)

\* MaterialCollection.calculate_flux_surface: tv / insulance, the insulance
\* being evaluated before the division is attempted
MaterialCollection_calculate_flux_surface(c, tv) ==
    Lift2("/", Ok(tv), calculate_thermal_insulance(c))

\* MaterialCollection.calculate_flux with surf the surfaces in force
MaterialCollection_calculate_flux(c, tv, surf) ==
    Lift2("*", MaterialCollection_calculate_flux_surface(c, tv), Ok(surf[c]))

\* The overriding methods write a surface before they compute: they yield the
\* surfaces they leave behind together with their outcome.
Effect(surf, r) == [surf |-> surf, r |-> r]

\* Roof.calculate_flux(*args): the whole args tuple is handed to the base method
Roof_calculate_flux(r, args, surf) ==
    IF parent[r] \notin Buildings THEN Effect(surf, Raise("AttributeError"))
    ELSE LET area == PyMul(width[parent[r]], length[parent[r]])
         IN  IF area.err # "none" THEN Effect(surf, area)
             ELSE LET surf1 == [surf EXCEPT ![r] = area.val]
                  IN  Effect(surf1,
                             MaterialCollection_calculate_flux(r, PyTuple(args), surf1))

\* Floor.calculate_flux that adds the footprint to the surface already there
Floor_calculate_flux_Accumulates(f, tv, surf) ==
    IF parent[f] \notin Buildings THEN Effect(surf, Raise("AttributeError"))
    ELSE LET area == PyMul(width[parent[f]], length[parent[f]])
         IN  IF area.err # "none" THEN Effect(surf, area)
             ELSE LET total == IF IsNum(surf[f]) THEN PyAdd(surf[f], area.val).val
                               ELSE area.val
                      surf1 == [surf EXCEPT ![f] = total]
                  IN  Effect(surf1, MaterialCollection_calculate_flux(f, tv, surf1))

\* Floor.calculate_flux(temperature_variation)
Floor_calculate_flux(f, tv, surf) ==
    IF parent[f] \notin Buildings THEN Effect(surf, Raise("AttributeError"))
    ELSE LET area == PyMul(width[parent[f]], length[parent[f]])
         IN  IF area.err # "none" THEN Effect(surf, area)
             ELSE LET surf1 == [surf EXCEPT ![f] = area.val]
                  IN  Effect(surf1, MaterialCollection_calculate_flux(f, tv, surf1))

\* sum(values): 0 + v1 + v2 + ...
RECURSIVE PySum(_, _, _)
PySum(vs, i, acc) ==
    IF acc.err # "none" \/ i > Len(vs) THEN acc
    ELSE PySum(vs, i + 1, Lift2("+", acc, Ok(vs[i])))

\* the loop over self.openings in Side.calculate_flux
RECURSIVE AddOpeningsFlux(_, _, _, _, _)
AddOpeningsFlux(os, i, tv, surf, acc) ==
    IF acc.err # "none" \/ i > Len(os) THEN acc
    ELSE AddOpeningsFlux(os, i + 1, tv, surf,
             Lift2("+", acc, MaterialCollection_calculate_flux(os[i], tv, surf)))

\* the wall surface with the openings left in
Side_wall_surface_KeepsOpenings(s, surf) ==
    LET twice == PyMul(PyInt(2), height[s])
    IN  IF twice.err # "none" THEN twice
        ELSE IF parent[s] \notin Buildings THEN Raise("AttributeError")
        ELSE Lift2("*", twice, PyAdd(width[parent[s]], length[parent[s]]))

\* the right-hand side of the assignment to self.wall.surface, operands
\* evaluated left to right
Side_wall_surface(s, surf) ==
    LET twice == PyMul(PyInt(2), height[s])
    IN  IF twice.err # "none" THEN twice
        ELSE IF parent[s] \notin Buildings THEN Raise("AttributeError")
        ELSE LET perimeter == PyAdd(width[parent[s]], length[parent[s]])
                 gross == Lift2("*", twice, perimeter)
                 holes == PySum([i \in 1..Len(openings[s]) |-> surf[openings[s][i]]],
                                1, Ok(PyInt(0)))
             IN  Lift2("-", gross, holes)

\* Side.calculate_flux that skips a missing Wall and sums the openings alone
Side_calculate_flux_SkipsMissingWall(s, tv, surf) ==
    LET net == Side_wall_surface(s, surf)
    IN  IF net.err # "none" THEN Effect(surf, net)
        ELSE IF wall[s] = None
        THEN Effect(surf, AddOpeningsFlux(openings[s], 1, tv, surf, Ok(PyInt(0))))
        ELSE LET surf1 == [surf EXCEPT ![wall[s]] = net.val]
                 fromWall == Lift2("+", Ok(PyInt(0)),
                                   MaterialCollection_calculate_flux(wall[s], tv, surf1))
             IN  Effect(surf1, AddOpeningsFlux(openings[s], 1, tv, surf1, fromWall))

\* Side.calculate_flux that stores the net surface on the openings as well
Side_calculate_flux_WritesOpenings(s, tv, surf) ==
    LET net == Side_wall_surface(s, surf)
    IN  IF net.err # "none" THEN Effect(surf, net)
        ELSE IF wall[s] = None THEN Effect(surf, Raise("AttributeError"))
        ELSE LET surf1 == [c \in AllCollections |->
                     IF c = wall[s] \/ c \in Range(openings[s])
                     THEN net.val ELSE surf[c]]
                 fromWall == Lift2("+", Ok(PyInt(0)),
                                   MaterialCollection_calculate_flux(wall[s], tv, surf1))
             IN  Effect(surf1, AddOpeningsFlux(openings[s], 1, tv, surf1, fromWall))

\* Side.calculate_flux(temperature_variation)
Side_calculate_flux(s, tv, surf) ==
    LET net == Side_wall_surface(s, surf)
    IN  IF net.err # "none" THEN Effect(surf, net)
        ELSE IF wall[s] = None THEN Effect(surf, Raise("AttributeError"))
        ELSE LET surf1 == [surf EXCEPT ![wall[s]] = net.val]
                 fromWall == Lift2("+", Ok(PyInt(0)),
                                   MaterialCollection_calculate_flux(wall[s], tv, surf1))
             IN  Effect(surf1, AddOpeningsFlux(openings[s], 1, tv, surf1, fromWall))

\* Building.calculate_flux(temperature_inside, temperature_outside,
\* temperature_underground) on integer temperatures
Building_calculate_flux(b, ti, to, tu, surf) ==
    LET air == PyInt(Abs(ti - to))
        ground == PyInt(Abs(ti - tu))
    IN  IF roof[b] = None THEN Effect(surf, Raise("AttributeError"))
        ELSE LET fromRoof == Roof_calculate_flux(roof[b], <<air>>, surf)
                 flux1 == Lift2("+", Ok(PyInt(0)), fromRoof.r)
             IN  IF flux1.err # "none" THEN Effect(fromRoof.surf, flux1)
                 ELSE IF side[b] = None
                 THEN Effect(fromRoof.surf, Raise("AttributeError"))
                 ELSE LET fromSide == Side_calculate_flux(side[b], air, fromRoof.surf)
                          flux2 == Lift2("+", flux1, fromSide.r)
                      IN  IF flux2.err # "none" THEN Effect(fromSide.surf, flux2)
                          ELSE IF floor[b] = None
                          THEN Effect(fromSide.surf, Raise("AttributeError"))
                          ELSE LET fromFloor == Floor_calculate_flux(floor[b], ground,
                                                                     fromSide.surf)
                               IN  Effect(fromFloor.surf,
                                          Lift2("+", flux2, fromFloor.r))

\* ------------------------------------------------------------ specifications
\* a driver that adds and removes Materials on plain collections
CollAdd == \E c \in Collections, m \in Materials :
    Len(materials[c]) < MaxLen /\ MaterialCollection_add(c, m)
CollRemove == \E c \in Collections, m \in Materials : MaterialCollection_remove(c, m)

\* a driver that adds and removes Walls and Openings on Sides
SideAdd == \E s \in Sides, c \in Walls \cup Openings :
    (c \in Openings => Len(openings[s]) < MaxLen) /\ Side_add(s, c)
SideRemove == \E s \in Sides, c \in Walls \cup Openings : Side_remove(s, c)

\* a driver that removes non-members: Materials on plain collections and one
\* Opening shared by the Sides
OpeningAdd == \E s \in Sides, c \in {"o1"} :
    Len(openings[s]) < MaxLen /\ Side_add(s, c)
OpeningRemove == \E s \in Sides, c \in {"o1"} : Side_remove(s, c)

NextColl == CollAdd \/ CollRemove
SpecColl == InitBare /\ [][NextColl]_vars

NextSide == SideAdd \/ SideRemove
SpecSide == InitBare /\ [][NextSide]_vars

NextMember == CollAdd \/ CollRemove \/ OpeningAdd \/ OpeningRemove
SpecMember == InitBare /\ [][NextMember]_vars

\* ------------------------------------------------------ ownership predicates
\* p holds c: in its materials, in its openings, or in one of its slots
Held(p, c) ==
    \/ p \in AllCollections /\ c \in Range(materials[p])
    \/ p \in Sides /\ (wall[p] = c \/ c \in Range(openings[p]))
    \/ p \in Buildings /\ (roof[p] = c \/ side[p] = c \/ floor[p] = c)

Holders(c) == {p \in AllCollections \cup Sides \cup Buildings : Held(p, c)}

NoDuplicates(s) == \A i, j \in 1..Len(s) : s[i] = s[j] => i = j

\* C4: every Material listed in a collection has that collection as parent, and
\* no Material is listed in two collections at once.
C4_MaterialOwnedByOneCollection ==
    /\ \A c \in AllCollections : \A m \in Range(materials[c]) : parent[m] = c
    /\ \A m \in Materials : Cardinality({c \in AllCollections : Held(c, m)}) <= 1

\* C5: a Side's wall and openings have that Side as parent, and every child in
\* a Building's roof, side or floor slot has that Building as parent.
C5_BackReferenceMatchesHolder ==
    /\ \A s \in Sides : wall[s] # None => parent[wall[s]] = s
    /\ \A s \in Sides : \A o \in Range(openings[s]) : parent[o] = s
    /\ \A b \in Buildings : \A c \in {roof[b], side[b], floor[b]} \ {None} :
           parent[c] = b

\* C6: no Wall, Opening, Roof, Side or Floor is held by two parents at once, and
\* no Opening is listed twice in one Side.
C6_SingleOwnerUniqueMembership ==
    /\ \A c \in Walls \cup Openings \cup Roofs \cup Sides \cup Floors :
           Cardinality(Holders(c)) <= 1
    /\ \A s \in Sides : NoDuplicates(openings[s])

AddOps == {"MaterialCollection.add", "Side.add", "Building.add"}
RemoveOps == {"MaterialCollection.remove", "Side.remove", "Building.remove"}

\* the child types a parent's add / remove dispatches on
Accepts(p, c) ==
    \/ p \in AllCollections /\ c \in Materials
    \/ p \in Sides /\ c \in Walls \cup Openings
    \/ p \in Buildings /\ c \in Roofs \cup Sides \cup Floors

\* C7: right after parent.add(child) the child is held by parent and points back
\* to it; right after a parent.remove(child) that returned, the child points to
\* None and is no longer held by parent.
C7_AddRemoveSymmetry ==
    /\ ret.op \in AddOps /\ Accepts(ret.self, ret.child)
         => parent[ret.child] = ret.self /\ Held(ret.self, ret.child)
    /\ ret.op \in RemoveOps /\ Accepts(ret.self, ret.child) /\ ret.err = "none"
         => parent[ret.child] = None /\ ~Held(ret.self, ret.child)

\* C8: MaterialCollection.remove of a Material that is not listed, and
\* Side.remove of an Opening that is not listed, raise the not-found error and
\* change neither a list nor a back-reference.
C8_RemoveNonMemberRaises ==
    [][(\/ /\ ret'.op = "MaterialCollection.remove"
           /\ ret'.child \notin Range(materials[ret'.self])
        \/ /\ ret'.op = "Side.remove"
           /\ ret'.child \in Openings
           /\ ret'.child \notin Range(openings[ret'.self]))
       => ret'.err = "ValueError" /\ UNCHANGED links]_vars

\* a Material that belongs to c2 was refused by c1.remove, and some Side lists
\* an Opening
C8_Witness ==
    /\ ret.op = "MaterialCollection.remove"
    /\ ret.err = "ValueError"
    /\ parent[ret.child] \in Collections \ {ret.self}
    /\ materials[ret.self] # <<>>
    /\ \E s \in Sides : openings[s] # <<>>

\* C9: removing a Wall, Roof, Side or Floor from a parent whose slot holds a
\* different one raises the not-found error and leaves the occupant attached.
C9_RemoveOtherSlotChildRaises ==
    [][(\/ /\ ret'.op = "Side.remove"
           /\ ret'.child \in Walls
           /\ wall[ret'.self] \notin {None, ret'.child}
        \/ /\ ret'.op = "Building.remove"
           /\ \/ ret'.child \in Roofs /\ roof[ret'.self] \notin {None, ret'.child}
              \/ ret'.child \in Sides /\ side[ret'.self] \notin {None, ret'.child}
              \/ ret'.child \in Floors /\ floor[ret'.self] \notin {None, ret'.child})
       => ret'.err = "ValueError" /\ UNCHANGED links]_vars

\* C10: Side.remove of a Wall on a Side whose wall slot is empty raises nothing
\* and changes nothing, the Wall's own back-reference included.
C10_RemoveWallFromEmptySlotIsNoOp ==
    [][(/\ ret'.op = "Side.remove"
        /\ ret'.child \in Walls
        /\ wall[ret'.self] = None)
       => ret'.err = "none" /\ UNCHANGED links]_vars

\* ------------------------------------------------------------- flux driver
Dims == {PyInt(i) : i \in 1..MaxDim}

\* the openings lists the driver passes to Side: o1, o2, o1, ... up to MaxLen
OpeningLists == {[i \in 1..k |-> IF i % 2 = 1 THEN "o1" ELSE "o2"] : k \in 0..MaxLen}

\* the state after this construction, arguments drawn from the sets below, at
\* most one part (the object named by skip) being left out:
\*   m1 = Material(tc, 1); m2 = Material(1, 2)
\*   r1 = Roof([m1]); f1 = Floor([m1, m2]); w1 = Wall([m1])
\*   o1 = Opening(a1); o2 = Opening(MaxDim); o2.add(m2)
\*   s1 = Side(h, w1, os); b1 = Building(w, l, r1, s1, f1)
\* every other object is built with no argument
InitFlux ==
    \E tc \in 0..MaxCond, a1, h, w, l \in Dims, os \in OpeningLists,
       skip \in {None, "w1", "r1", "s1", "f1"} :
        /\ thermal_conductivity =
               [m \in Materials |-> IF m = "m1" THEN PyInt(tc) ELSE PyInt(1)]
        /\ thickness = [m \in Materials |-> IF m = "m1" THEN PyInt(1) ELSE PyInt(2)]
        /\ materials = [c \in AllCollections |->
               CASE c \in {"r1", "w1"} -> <<"m1">>
                 [] c = "f1" -> <<"m1", "m2">>
                 [] c = "o2" -> <<"m2">>
                 [] OTHER -> <<>>]
        /\ surface = [c \in AllCollections |->
               CASE c = "o1" -> a1 [] c = "o2" -> PyInt(MaxDim) [] OTHER -> PyNone]
        /\ height = [s \in Sides |-> IF s = "s1" THEN h ELSE PyNone]
        /\ wall = [s \in Sides |-> IF s = "s1" /\ skip # "w1" THEN "w1" ELSE None]
        /\ openings = [s \in Sides |-> IF s = "s1" THEN os ELSE <<>>]
        /\ width = [b \in Buildings |-> IF b = "b1" THEN w ELSE PyNone]
        /\ length = [b \in Buildings |-> IF b = "b1" THEN l ELSE PyNone]
        /\ roof = [b \in Buildings |-> IF b = "b1" /\ skip # "r1" THEN "r1" ELSE None]
        /\ side = [b \in Buildings |-> IF b = "b1" /\ skip # "s1" THEN "s1" ELSE None]
        /\ floor = [b \in Buildings |-> IF b = "b1" /\ skip # "f1" THEN "f1" ELSE None]
        /\ parent = [c \in Children |->
               CASE c = "m1" -> "w1"
                 [] c = "m2" -> "o2"
                 [] c = "w1" /\ skip # "w1" -> "s1"
                 [] c \in Range(os) -> "s1"
                 [] c \in {"r1", "s1", "f1"} /\ skip # c -> "b1"
                 [] OTHER -> None]
        /\ ret = Call("init", None, None, <<>>, Ok(PyNone))

\* the temperature variation the driver passes in direct calls
Variations == {PyInt(Abs(DefaultInside - DefaultOutside))}

Temperatures == {<<DefaultInside, DefaultOutside, DefaultUnderground>>,
                 <<DefaultOutside, DefaultInside, DefaultUnderground>>}

BuildingFlux == \E b \in {"b1"}, t \in Temperatures :
    LET e == Building_calculate_flux(b, t[1], t[2], t[3], surface)
    IN  /\ surface' = e.surf
        /\ ret' = Call("Building.calculate_flux", b, None, t, e.r)
        /\ UNCHANGED links
        /\ UNCHANGED <<thermal_conductivity, thickness, height, width, length>>

RoofFlux == \E r \in {"r1"}, tv \in Variations :
    LET e == Roof_calculate_flux(r, <<tv>>, surface)
    IN  /\ surface' = e.surf
        /\ ret' = Call("Roof.calculate_flux", r, None, <<tv>>, e.r)
        /\ UNCHANGED links
        /\ UNCHANGED <<thermal_conductivity, thickness, height, width, length>>

FloorFlux == \E f \in {"f1"}, tv \in Variations :
    LET e == Floor_calculate_flux(f, tv, surface)
    IN  /\ surface' = e.surf
        /\ ret' = Call("Floor.calculate_flux", f, None, <<tv>>, e.r)
        /\ UNCHANGED links
        /\ UNCHANGED <<thermal_conductivity, thickness, height, width, length>>

SideFlux == \E s \in {"s1"}, tv \in Variations :
    LET e == Side_calculate_flux(s, tv, surface)
    IN  /\ surface' = e.surf
        /\ ret' = Call("Side.calculate_flux", s, None, <<tv>>, e.r)
        /\ UNCHANGED links
        /\ UNCHANGED <<thermal_conductivity, thickness, height, width, length>>

\* the base method called directly on a Wall or an Opening
CollectionFlux == \E c \in {"w1", "o1"}, tv \in Variations :
    /\ ret' = Call("MaterialCollection.calculate_flux", c, None, <<tv>>,
                   MaterialCollection_calculate_flux(c, tv, surface))
    /\ UNCHANGED links
    /\ UNCHANGED fields

NextFlux == BuildingFlux \/ RoofFlux \/ FloorFlux \/ SideFlux \/ CollectionFlux
SpecFlux == InitFlux /\ [][NextFlux]_vars

\* ----------------------------------------------------------- flux properties
\* arithmetic on numbers that are known to be set
QAdd(a, b) == PyAdd(a, b).val
QSub(a, b) == PySub(a, b).val
QMul(a, b) == PyMul(a, b).val
QDiv(a, b) == PyDiv(a, b).val

\* every layer of c has a thickness and a non-zero thermal conductivity
ValidLayers(c) ==
    \A m \in Range(materials[c]) :
        /\ IsNum(thickness[m])
        /\ IsNum(thermal_conductivity[m])
        /\ thermal_conductivity[m].n # 0

\* tv / thermalInsulance() * area
FluxFormula(c, tv, area) == QMul(QDiv(tv, calculate_thermal_insulance(c).val), area)

RECURSIVE SumOver(_, _)
SumOver(vs, i) == IF i > Len(vs) THEN PyInt(0) ELSE QAdd(vs[i], SumOver(vs, i + 1))

\* s has a Wall, belongs to a Building, and every number its flux reads is set
SideConfigured(s) ==
    /\ wall[s] # None
    /\ parent[s] \in Buildings
    /\ IsNum(height[s]) /\ IsNum(width[parent[s]]) /\ IsNum(length[parent[s]])
    /\ ValidLayers(wall[s])
    /\ \A o \in Range(openings[s]) : IsNum(surface[o]) /\ ValidLayers(o)

\* c is attached to a Building whose dimensions are set, and its layers are valid
CapConfigured(c) ==
    /\ parent[c] \in Buildings
    /\ IsNum(width[parent[c]]) /\ IsNum(length[parent[c]])
    /\ ValidLayers(c)

BuildingConfigured(b) ==
    /\ roof[b] # None /\ side[b] # None /\ floor[b] # None
    /\ CapConfigured(roof[b]) /\ CapConfigured(floor[b])
    /\ SideConfigured(side[b])

\* 2 * height * (width + length) - sum of the openings' surfaces
NetWallSurface(s) ==
    QSub(QMul(QMul(PyInt(2), height[s]),
              QAdd(width[parent[s]], length[parent[s]])),
         SumOver([i \in 1..Len(openings[s]) |-> surface[openings[s][i]]], 1))

\* wall.flux(tv) + sum of opening.flux(tv)
SideFluxFormula(s, tv) ==
    QAdd(FluxFormula(wall[s], tv, NetWallSurface(s)),
         SumOver([i \in 1..Len(openings[s]) |->
                     FluxFormula(openings[s][i], tv, surface[openings[s][i]])], 1))

\* C1: on a fully configured building Building.calculate_flux(ti, to, tu)
\* returns roof.flux(|ti-to|) + side.flux(|ti-to|) + floor.flux(|ti-tu|).
C1_BuildingFluxIsSumOfParts ==
    ret.op = "Building.calculate_flux" /\ BuildingConfigured(ret.self) =>
        LET b == ret.self
            air == PyInt(Abs(ret.args[1] - ret.args[2]))
            ground == PyInt(Abs(ret.args[1] - ret.args[3]))
            area == QMul(width[b], length[b])
        IN  /\ ret.err = "none"
            /\ ret.val = QAdd(QAdd(FluxFormula(roof[b], air, area),
                                   SideFluxFormula(side[b], air)),
                              FluxFormula(floor[b], ground, area))

\* C2: Roof.calculate_flux(deltaT) on an attached Roof sets its surface to
\* width * length and returns deltaT / thermalInsulance() * (width * length).
C2_RoofFluxUsesFootprint ==
    ret.op = "Roof.calculate_flux" /\ CapConfigured(ret.self) =>
        LET area == QMul(width[parent[ret.self]], length[parent[ret.self]])
        IN  /\ surface[ret.self] = area
            /\ ret.err = "none"
            /\ ret.val = FluxFormula(ret.self, ret.args[1], area)

\* C3: Side.calculate_flux(deltaT) on a configured Side sets the Wall's surface
\* to 2*height*(width+length) minus the openings' surfaces and returns the
\* Wall's flux plus the sum of the openings' fluxes.
C3_SideFluxFormula ==
    ret.op = "Side.calculate_flux" /\ SideConfigured(ret.self) =>
        /\ surface[wall[ret.self]] = NetWallSurface(ret.self)
        /\ ret.err = "none"
        /\ ret.val = SideFluxFormula(ret.self, ret.args[1])

\* Side.calculate_flux returned a positive flux on a configured Side with two openings
C3_Witness ==
    /\ ret.op = "Side.calculate_flux"
    /\ SideConfigured(ret.self)
    /\ Len(openings[ret.self]) = 2
    /\ ret.err = "none"
    /\ ret.val.n > 0
    /\ surface[wall[ret.self]] # PyNone

\* ------------------------------------------------------- unrecognised children
\* a driver that hands one Side and one Building children of every type
TypesSideAdd == \E c \in {"w1", "o1", "r1", "f1", "m1", "c1", "s2"} :
    (c \in Openings => Len(openings["s1"]) < MaxLen) /\ Side_add("s1", c)
TypesSideRemove == \E c \in {"w1", "o1", "r1", "f1", "m1", "c1", "s2"} :
    Side_remove("s1", c)
TypesBuildingAdd == \E c \in {"r1", "s1", "f1", "w1", "o1", "m1", "c1"} :
    Building_add("b1", c)
TypesBuildingRemove == \E c \in {"r1", "s1", "f1", "w1", "o1", "m1", "c1"} :
    Building_remove("b1", c)

NextTypes == TypesSideAdd \/ TypesSideRemove \/ TypesBuildingAdd \/ TypesBuildingRemove
SpecTypes == InitBare /\ [][NextTypes]_vars

\* C11: Side.add / Side.remove with a child that is neither a Wall nor an
\* Opening, and Building.add / Building.remove with a child that is neither a
\* Roof, a Side nor a Floor, raise nothing and change no slot, no sequence, no
\* back-reference and no field.
C11_UnrecognisedChildIsIgnored ==
    [][(\/ /\ ret'.op \in {"Side.add", "Side.remove"}
           /\ ret'.child \notin Walls \cup Openings
        \/ /\ ret'.op \in {"Building.add", "Building.remove"}
           /\ ret'.child \notin Roofs \cup Sides \cup Floors)
       => ret'.err = "none" /\ UNCHANGED links /\ UNCHANGED fields]_vars

\* the Building was handed the Wall that the Side holds, with its own slots full
C11_Witness ==
    /\ ret.op = "Building.add" /\ ret.child = "w1" /\ ret.err = "none"
    /\ wall["s1"] = "w1" /\ parent["w1"] = "s1"
    /\ roof["b1"] = "r1" /\ side["b1"] = "s1" /\ floor["b1"] = "f1"
    /\ openings["s1"] # <<>>

SeqsUpTo(S, n) == UNION {[1..k -> S] : k \in 0..n}

\* the collections the insulance driver stacks the same layers in
Stacks == {"c1", "w1", "r1", "o1", "f1"}

\* the state after this construction, arguments drawn from the sets below:
\*   m1 = Material(tc1, th1); m2 = Material(tc2, th2)
\*   c1 = MaterialCollection(ms); w1 = Wall(ms); r1 = Roof(ms); f1 = Floor(ms)
\*   o1 = Opening(MaxDim); for m in ms: o1.add(m)
\*   b1 = Building(w, MaxDim, floor=f1)
\* every other object is built with no argument
InitInsulance ==
    \E tc1, tc2 \in 0..MaxCond, th1, th2 \in 1..MaxDim, w \in Dims,
       ms \in SeqsUpTo(Materials, MaxLen) :
        /\ thermal_conductivity =
               [m \in Materials |-> IF m = "m1" THEN PyInt(tc1) ELSE PyInt(tc2)]
        /\ thickness = [m \in Materials |-> IF m = "m1" THEN PyInt(th1) ELSE PyInt(th2)]
        /\ materials = [c \in AllCollections |-> IF c \in Stacks THEN ms ELSE <<>>]
        /\ surface = [c \in AllCollections |->
               IF c = "o1" THEN PyInt(MaxDim) ELSE PyNone]
        /\ height = [s \in Sides |-> PyNone]
        /\ wall = [s \in Sides |-> None]
        /\ openings = [s \in Sides |-> <<>>]
        /\ width = [b \in Buildings |-> IF b = "b1" THEN w ELSE PyNone]
        /\ length = [b \in Buildings |-> IF b = "b1" THEN PyInt(MaxDim) ELSE PyNone]
        /\ roof = [b \in Buildings |-> None]
        /\ side = [b \in Buildings |-> None]
        /\ floor = [b \in Buildings |-> IF b = "b1" THEN "f1" ELSE None]
        /\ parent = [c \in Children |->
               CASE c \in Range(ms) -> "o1"
                 [] c = "f1" -> "b1"
                 [] OTHER -> None]
        /\ ret = Call("init", None, None, <<>>, Ok(PyNone))

ConductionCall == \E c \in Stacks :
    /\ ret' = Call("calculate_thermal_conductivity_insulance", c, None, <<>>,
                   MaterialCollection_calculate_thermal_conductivity_insulance(c))
    /\ UNCHANGED links
    /\ UNCHANGED fields

InsulanceCall == \E c \in Stacks :
    /\ ret' = Call("calculate_thermal_insulance", c, None, <<>>,
                   calculate_thermal_insulance(c))
    /\ UNCHANGED links
    /\ UNCHANGED fields

NextInsulance == ConductionCall \/ InsulanceCall \/ FloorFlux
SpecInsulance == InitInsulance /\ [][NextInsulance]_vars

\* ------------------------------------------------------ insulance properties
\* sum of thickness / thermal conductivity over the layers of ms
Conduction(ms) ==
    SumOver([i \in 1..Len(ms) |-> QDiv(thickness[ms[i]], thermal_conductivity[ms[i]])], 1)

Tenth == Num(1, 10)
Eightieth == Num(1, 80)

\* C13: with conductive insulance c, a Wall, Roof, Opening or plain collection
\* has thermal insulance c + 1/10 + 1/80 and a Floor c + 1/10, 1/80 less than
\* any other collection with the same layers; Floor.calculate_flux divides by
\* the Floor's value.
C13_FloorHasNoOutsideTerm ==
    /\ ret.op = "calculate_thermal_insulance" /\ ValidLayers(ret.self) =>
        LET c == Conduction(materials[ret.self])
        IN  /\ ret.err = "none"
            /\ ret.self \in Floors => ret.val = QAdd(c, Tenth)
            /\ ret.self \notin Floors =>
                 /\ ret.val = QAdd(QAdd(c, Tenth), Eightieth)
                 /\ \A f \in Floors : materials[f] = materials[ret.self] =>
                        QSub(ret.val, calculate_thermal_insulance(f).val) = Eightieth
    /\ ret.op = "Floor.calculate_flux" /\ CapConfigured(ret.self) =>
        LET b == parent[ret.self]
        IN  /\ ret.err = "none"
            /\ ret.val = QMul(QDiv(ret.args[1],
                                   QAdd(Conduction(materials[ret.self]), Tenth)),
                              QMul(width[b], length[b]))

\* the insulance of a layered Floor has been computed
C13_Witness ==
    /\ ret.op = "calculate_thermal_insulance" /\ ret.self \in Floors
    /\ Len(materials[ret.self]) = 2 /\ ValidLayers(ret.self)
    /\ ret.err = "none"
    /\ ret.val = QSub(calculate_thermal_insulance("w1").val, Eightieth)

\* the sequences that list the elements of s in some order
Orderings(s) ==
    {t \in [1..Len(s) -> Range(s)] :
        \A x \in Range(s) : Cardinality({i \in 1..Len(s) : t[i] = x})
                            = Cardinality({i \in 1..Len(s) : s[i] = x})}

\* C14: the conductive insulance of a collection is the sum of thickness /
\* thermal conductivity over its Materials, 0 when it has none, and the same in
\* whatever order the Materials are listed.
C14_ConductionIsOrderFreeSum ==
    ret.op = "calculate_thermal_conductivity_insulance" /\ ValidLayers(ret.self) =>
        /\ ret.err = "none"
        /\ ret.val = Conduction(materials[ret.self])
        /\ materials[ret.self] = <<>> => ret.val = PyInt(0)
        /\ \A t \in Orderings(materials[ret.self]) :
               SumInsulance(t, 1, Ok(PyInt(0))) = Ok(ret.val)

\* the sum over two Materials of different insulance has been computed
C14_Witness ==
    /\ ret.op = "calculate_thermal_conductivity_insulance" /\ ret.err = "none"
    /\ Len(materials[ret.self]) = 2 /\ ValidLayers(ret.self)
    /\ materials[ret.self][1] # materials[ret.self][2]
    /\ Conduction(<<materials[ret.self][1]>>) # Conduction(<<materials[ret.self][2]>>)

\* C15: Building.calculate_flux raises and returns no number whenever its roof,
\* side or floor slot is empty or its Side has no Wall; Side.calculate_flux
\* raises whenever its wall slot is empty or it belongs to no Building.
C15_MissingPartRaises ==
    /\ (/\ ret.op = "Building.calculate_flux"
        /\ \/ None \in {roof[ret.self], side[ret.self], floor[ret.self]}
           \/ wall[side[ret.self]] = None)
       => ret.err # "none" /\ ret.val = PyNone
    /\ (/\ ret.op = "Side.calculate_flux"
        /\ (wall[ret.self] = None \/ parent[ret.self] \notin Buildings))
       => ret.err # "none" /\ ret.val = PyNone

\* Side.calculate_flux was called on a Side with openings, a parent Building
\* and no Wall
C15_Witness ==
    /\ ret.op = "Side.calculate_flux" /\ ret.err = "AttributeError"
    /\ wall[ret.self] = None /\ parent[ret.self] \in Buildings
    /\ openings[ret.self] # <<>>
    /\ roof[parent[ret.self]] # None /\ floor[parent[ret.self]] # None

\* C16 (counterexample): after Side.calculate_flux on a Side of strictly
\* positive height, in a Building of strictly positive width and length, whose
\* Openings all have strictly positive surface, the Wall's surface is strictly
\* positive; after Roof.calculate_flux or Floor.calculate_flux the surface of
\* the Roof or Floor is strictly positive.
Positive(v) == IsNum(v) /\ v.n > 0

C16_DerivedSurfaceIsPositive ==
    /\ (/\ ret.op = "Side.calculate_flux"
        /\ wall[ret.self] # None /\ parent[ret.self] \in Buildings
        /\ Positive(height[ret.self])
        /\ Positive(width[parent[ret.self]]) /\ Positive(length[parent[ret.self]])
        /\ \A i \in 1..Len(openings[ret.self]) : Positive(surface[openings[ret.self][i]]))
       => Positive(surface[wall[ret.self]])
    /\ (/\ ret.op \in {"Roof.calculate_flux", "Floor.calculate_flux"}
        /\ parent[ret.self] \in Buildings
        /\ Positive(width[parent[ret.self]]) /\ Positive(length[parent[ret.self]]))
       => Positive(surface[ret.self])

\* --------------------------------------------------------- occupied slots
\* a driver that adds Walls to the Sides and Roofs, Sides and Floors to one
\* Building, so that slots are filled again while occupied
SlotsSideAdd == \E s \in Sides, c \in Walls : Side_add(s, c)
SlotsBuildingAdd == \E c \in Roofs \cup Sides \cup Floors : Building_add("b1", c)

NextSlots == SlotsSideAdd \/ SlotsBuildingAdd
SpecSlots == InitBare /\ [][NextSlots]_vars

\* the slot of p that a child of this type goes to
SlotOf(p, child) ==
    CASE child \in Walls -> wall[p]
      [] child \in Roofs -> roof[p]
      [] child \in Sides -> side[p]
      [] child \in Floors -> floor[p]

\* C17: Side.add of a Wall onto an occupied wall slot, and Building.add of a
\* Roof, Side or Floor onto an occupied roof, side or floor slot, put the new
\* child in the slot with its parent set to the receiver and leave the previous
\* occupant's parent as it was: where that parent was the receiver it still is,
\* although the receiver no longer holds the previous occupant.
C17_ReplaceKeepsOldBackReference ==
    [][\A p \in Sides \cup Buildings, new, old \in Walls \cup Roofs \cup Sides \cup Floors :
        (/\ ret'.self = p /\ ret'.child = new
         /\ \/ ret'.op = "Side.add" /\ new \in Walls
            \/ ret'.op = "Building.add" /\ new \notin Walls
         /\ SlotOf(p, new) = old /\ old # new)
        => /\ SlotOf(p, new)' = new
           /\ parent'[new] = p
           /\ parent'[old] = parent[old]
           /\ parent[old] = p => parent'[old] = p /\ ~Held(p, old)']_vars

\* s1 holds w2 after w1, b1 holds r2 after r1, and w1 and r1 still name them
C17_Witness ==
    /\ wall["s1"] = "w2" /\ parent["w2"] = "s1" /\ parent["w1"] = "s1"
    /\ roof["b1"] = "r2" /\ parent["r2"] = "b1" /\ parent["r1"] = "b1"
    /\ ret.op = "Building.add" /\ ret.child = "r2"

\* C18: a call of Building.calculate_flux, Side.calculate_flux,
\* Roof.calculate_flux or Floor.calculate_flux, returning or raising, leaves
\* every slot, every materials and openings sequence, every parent, the width
\* and length of Buildings, the height of Sides, the surface of every Opening
\* and the fields of every Material unchanged; only the surface of a Roof, a
\* Floor or a Side's Wall may differ afterwards.
FluxOps == {"Building.calculate_flux", "Side.calculate_flux",
            "Roof.calculate_flux", "Floor.calculate_flux"}

C18_FluxWritesOnlyDerivedSurfaces ==
    [][ret'.op \in FluxOps =>
        /\ UNCHANGED links
        /\ UNCHANGED <<thermal_conductivity, thickness, height, width, length>>
        /\ \A c \in AllCollections :
               surface'[c] # surface[c] =>
                   \/ c \in Roofs \cup Floors
                   \/ c \in Walls /\ \E s \in Sides : wall[s] = c]_vars

\* Building.calculate_flux raised after it had written the Roof's surface, on
\* a Building whose Side has Openings
C18_Witness ==
    /\ ret.op = "Building.calculate_flux" /\ ret.err # "none"
    /\ roof[ret.self] # None /\ surface[roof[ret.self]] # PyNone
    /\ side[ret.self] # None /\ openings[side[ret.self]] # <<>>

====
